---- MODULE Spec2Model ----
(***************************************************************************)
(* A model of organizer.py: FileOrganizer.run (organize a directory by     *)
(* file type, live or dry-run, recursive or not) and undo_organization.    *)
(*                                                                         *)
(* A path is the sequence of its components below the organized root, so   *)
(* the root is << >> and Documents/a.txt is <<"Documents", "a.txt">>.      *)
(* The filesystem is the set of directories and a function from the paths  *)
(* of the regular files to their contents.  File names are strings and     *)
(* the string functions of the code (suffix, stem, endswith, startswith,   *)
(* in, lower) are computed character by character.                         *)
(***************************************************************************)
EXTENDS Integers, Sequences, FiniteSets, TLC

(***************************************************************************)
(* Bounds of the model.                                                    *)
(***************************************************************************)
MaxSteps == 3

(***************************************************************************)
(* Python strings.                                                         *)
(***************************************************************************)
CharAt(s, i) == SubSeq(s, i, i)

endswith(s, suf) ==
    /\ Len(suf) <= Len(s)
    /\ SubSeq(s, Len(s) - Len(suf) + 1, Len(s)) = suf

startswith(s, pre) ==
    /\ Len(pre) <= Len(s)
    /\ SubSeq(s, 1, Len(pre)) = pre

contains(s, sub) ==
    \E i \in 1..(Len(s) - Len(sub) + 1) : SubSeq(s, i, i + Len(sub) - 1) = sub

UpperCase == "ABCDEFGHIJKLMNOPQRSTUVWXYZ"
LowerCase == "abcdefghijklmnopqrstuvwxyz"

LowerOf ==
    [c \in {CharAt(UpperCase, i) : i \in 1..Len(UpperCase)} |->
        CharAt(LowerCase, CHOOSE i \in 1..Len(UpperCase) : CharAt(UpperCase, i) = c)]

LowerChar(c) == IF c \in DOMAIN LowerOf THEN LowerOf[c] ELSE c

RECURSIVE lower(_)
lower(s) ==
    IF s = "" THEN ""
    ELSE LowerChar(CharAt(s, 1)) \o lower(SubSeq(s, 2, Len(s)))

RECURSIVE strip(_)
strip(s) ==
    IF s = "" THEN s
    ELSE IF CharAt(s, 1) = " " THEN strip(SubSeq(s, 2, Len(s)))
    ELSE IF CharAt(s, Len(s)) = " " THEN strip(SubSeq(s, 1, Len(s) - 1))
    ELSE s

(* The characters of file names in code-point order, for the enumeration   *)
(* order of a directory.                                                   *)
Alphabet == " #*.0123456789ABCDEFGHIJKLMNOPQRSTUVWXYZ_abcdefghijklmnopqrstuvwxyz"

CodeOf ==
    [c \in {CharAt(Alphabet, i) : i \in 1..Len(Alphabet)} |->
        CHOOSE i \in 1..Len(Alphabet) : CharAt(Alphabet, i) = c]

Code(c) == CodeOf[c]

RECURSIVE StrLess(_, _)
StrLess(a, b) ==
    IF b = "" THEN FALSE
    ELSE IF a = "" THEN TRUE
    ELSE IF CharAt(a, 1) = CharAt(b, 1)
    THEN StrLess(SubSeq(a, 2, Len(a)), SubSeq(b, 2, Len(b)))
    ELSE Code(CharAt(a, 1)) < Code(CharAt(b, 1))

(***************************************************************************)
(* pathlib: parent, name, suffix, stem.                                    *)
(***************************************************************************)
ROOT == << >>

parent(p) == SubSeq(p, 1, Len(p) - 1)

name(p) == p[Len(p)]

(* str.rfind('.') as a 1-based position, 0 when there is no dot. *)
rfind_dot(n) ==
    LET D == {i \in 1..Len(n) : CharAt(n, i) = "."}
    IN  IF D = {} THEN 0 ELSE CHOOSE i \in D : \A j \in D : j <= i

suffix_at(n, i) == IF 1 < i /\ i < Len(n) THEN SubSeq(n, i, Len(n)) ELSE ""

suffix(n) == suffix_at(n, rfind_dot(n))

stem_at(n, i) == IF 1 < i /\ i < Len(n) THEN SubSeq(n, 1, i - 1) ELSE n

stem(n) == stem_at(n, rfind_dot(n))

LOG_NAME == ".organizer_log.json"
IGNORE_NAME == ".organizerignore"

(***************************************************************************)
(* The category table, in the iteration order of the dict.                 *)
(***************************************************************************)
DEFAULT_CATEGORIES ==
    << [category |-> "Images",
        extensions |-> {".jpg", ".jpeg", ".png", ".gif", ".bmp", ".svg", ".webp", ".ico", ".tiff"}],
       [category |-> "Documents",
        extensions |-> {".pdf", ".doc", ".docx", ".txt", ".xlsx", ".xls", ".pptx", ".ppt", ".odt", ".rtf"}],
       [category |-> "Videos",
        extensions |-> {".mp4", ".avi", ".mkv", ".mov", ".flv", ".wmv", ".webm", ".m4v"}],
       [category |-> "Audio",
        extensions |-> {".mp3", ".wav", ".flac", ".aac", ".ogg", ".wma", ".m4a"}],
       [category |-> "Archives",
        extensions |-> {".zip", ".rar", ".7z", ".tar", ".gz", ".bz2", ".xz"}],
       [category |-> "Code",
        extensions |-> {".py", ".js", ".html", ".css", ".java", ".cpp", ".c", ".h", ".json", ".xml", ".yaml", ".yml"}],
       [category |-> "Executables",
        extensions |-> {".exe", ".msi", ".dmg", ".pkg", ".deb", ".rpm", ".app"}],
       [category |-> "Books",
        extensions |-> {".epub", ".mobi", ".azw", ".azw3"}] >>

(* self.categories.keys() *)
category_keys == {DEFAULT_CATEGORIES[i].category : i \in 1..Len(DEFAULT_CATEGORIES)}

(* The for loop of get_category from category i on; ext is the lowercased *)
(* extension. *)
RECURSIVE first_category(_, _)
first_category(ext, i) ==
    IF i > Len(DEFAULT_CATEGORIES) THEN "Others"
    ELSE IF ext \in DEFAULT_CATEGORIES[i].extensions
    THEN DEFAULT_CATEGORIES[i].category
    ELSE first_category(ext, i + 1)

get_category(file_extension) == first_category(lower(file_extension), 1)

(***************************************************************************)
(* The ignore patterns.  An ignore file is a sequence of lines, or absent. *)
(***************************************************************************)
NoFile == [present |-> FALSE, lines |-> << >>]

RECURSIVE pattern_lines(_)
pattern_lines(lines) ==
    IF lines = << >> THEN << >>
    ELSE LET line == strip(Head(lines))
         IN  IF line # "" /\ ~startswith(line, "#")
             THEN <<line>> \o pattern_lines(Tail(lines))
             ELSE pattern_lines(Tail(lines))

load_ignore_patterns(file) ==
    <<LOG_NAME, IGNORE_NAME>>
        \o (IF file.present THEN pattern_lines(file.lines) ELSE << >>)

pattern_matches(pattern, file_name) ==
    IF startswith(pattern, "*")
    THEN endswith(file_name, SubSeq(pattern, 2, Len(pattern)))
    ELSE IF endswith(pattern, "*")
    THEN startswith(file_name, SubSeq(pattern, 1, Len(pattern) - 1))
    ELSE contains(file_name, pattern)

should_ignore(file_name, patterns) ==
    \E i \in 1..Len(patterns) : pattern_matches(patterns[i], file_name)

(***************************************************************************)
(* The filesystem below the root.  A run state st carries the directories, *)
(* the files, and what the run has recorded so far.                        *)
(***************************************************************************)
exists(st, p) == p = ROOT \/ p \in st.dirs \/ p \in DOMAIN st.files

is_dir(st, p) == p = ROOT \/ p \in st.dirs

children(st, dir) ==
    {p \in st.dirs \cup DOMAIN st.files :
        Len(p) = Len(dir) + 1 /\ SubSeq(p, 1, Len(dir)) = dir}

(* The two enumeration orders of the model: os.scandir's order is          *)
(* arbitrary, and a run lists every directory by name, ascending or        *)
(* descending.                                                             *)
Orders == {"ascending", "descending"}

Before(a, b, order) ==
    IF order = "ascending" THEN StrLess(a, b) ELSE StrLess(b, a)

RECURSIVE Sorted(_, _), SortedFrom(_, _, _)
Sorted(S, order) ==
    IF S = {} THEN << >>
    ELSE SortedFrom(CHOOSE x \in S : \A y \in S \ {x} : Before(name(x), name(y), order),
                    S, order)

SortedFrom(m, S, order) == <<m>> \o Sorted(S \ {m}, order)

(* list(current_dir.iterdir()): hidden holds the log file and the ignore   *)
(* file of the root when they exist. *)
iterdir(st, dir, hidden, order) ==
    Sorted(children(st, dir) \cup (IF dir = ROOT THEN hidden ELSE {}), order)

(* Path.mkdir(exist_ok=True) of a child of the root: FileExistsError when  *)
(* a regular file has that name. *)
mkdir_raises(st, p) == p \in DOMAIN st.files

(* mkdir_category without the dry-run guard: a dry run creates the folder *)
mkdir_category_always(st, category_path, dry_run) ==
    [st EXCEPT !.dirs = @ \cup {category_path}]

(* category_path.mkdir(exist_ok=True), skipped in a dry run *)
mkdir_category(st, category_path, dry_run) ==
    IF dry_run THEN st ELSE [st EXCEPT !.dirs = @ \cup {category_path}]

(* The while loop of organize_file: the candidate is tried, then           *)
(* stem_counter+extension with the counter going up. *)
RECURSIVE allocate(_, _, _, _, _, _)
allocate(st, category_path, original_stem, file_extension, new_file_path, counter) ==
    IF exists(st, new_file_path)
    THEN allocate(st, category_path, original_stem, file_extension,
                  category_path \o <<original_stem \o "_" \o ToString(counter) \o file_extension>>,
                  counter + 1)
    ELSE new_file_path

(* shutil.move(src, dst) of a regular file: into dst when dst is a         *)
(* directory, else os.rename, which replaces a regular file at dst (POSIX).*)
(* fail is the set of file names whose move the filesystem refuses.        *)
real_dst(st, src, dst) ==
    IF is_dir(st, dst) THEN dst \o <<name(src)>> ELSE dst

move_raises(st, src, dst, fail) ==
    \/ name(src) \in fail
    \/ src \notin DOMAIN st.files
    \/ is_dir(st, dst) /\ exists(st, real_dst(st, src, dst))
    \/ ~is_dir(st, parent(real_dst(st, src, dst)))

rename(st, src, to) ==
    [st EXCEPT !.files =
        [p \in (DOMAIN st.files \ {src}) \cup {to} |->
            IF p = to THEN st.files[src] ELSE st.files[p]]]

shutil_move(st, src, dst) == rename(st, src, real_dst(st, src, dst))

(* The operation record; the timestamp is left out. *)
OperationRecord(old_path, new_path) ==
    [old_path |-> old_path, new_path |-> new_path]

(* The end of organize_file: the dry-run report, or the move and its      *)
(* record; s1 is the state once the category folder is there. *)
move_or_report(s1, file_path, new_file_path, dry_run, fail) ==
    IF dry_run
    THEN [s1 EXCEPT !.reports = Append(@, OperationRecord(file_path, new_file_path)),
                    !.count = @ + 1]
    ELSE IF move_raises(s1, file_path, new_file_path, fail)
    THEN s1
    ELSE [shutil_move(s1, file_path, new_file_path) EXCEPT
             !.reports = Append(@, OperationRecord(file_path, new_file_path)),
             !.operations = Append(@, OperationRecord(file_path, new_file_path)),
             !.existed = Append(@, exists(s1, new_file_path)),
             !.count = @ + 1]

(* organize_file once the category folder is there *)
allocate_and_move(s1, file_path, category_path, file_extension, dry_run, fail) ==
    move_or_report(s1, file_path,
                   allocate(s1, category_path, stem(name(file_path)), file_extension,
                            category_path \o <<name(file_path)>>, 1),
                   dry_run, fail)

(* organize_file from the category folder on *)
organize_into(st, file_path, category_path, file_extension, dry_run, fail) ==
    IF ~dry_run /\ mkdir_raises(st, category_path)
    THEN [st EXCEPT !.raised = TRUE]
    ELSE allocate_and_move(mkdir_category(st, category_path, dry_run), file_path,
                           category_path, file_extension, dry_run, fail)

organize_file(st, file_path, dry_run, fail) ==
    organize_into(st, file_path, <<get_category(suffix(name(file_path)))>>,
                  suffix(name(file_path)), dry_run, fail)

(* The for loop of organize_directory over items, from item i on; opt      *)
(* holds recursive, dry_run, order, fail, patterns and hidden. *)
RECURSIVE organize_items(_, _, _, _)
organize_items(st, items, i, opt) ==
    IF i > Len(items) \/ st.raised THEN st
    ELSE organize_items(
             IF is_dir(st, items[i])
             THEN IF parent(items[i]) = ROOT /\ name(items[i]) \in category_keys
                  THEN st
                  ELSE IF opt.recursive /\ parent(items[i]) = ROOT
                  THEN organize_items(st, iterdir(st, items[i], opt.hidden, opt.order), 1, opt)
                  ELSE st
             ELSE IF should_ignore(name(items[i]), opt.patterns)
             THEN st
             ELSE organize_file(st, items[i], opt.dry_run, opt.fail),
             items, i + 1, opt)

organize_directory(st, current_dir, opt) ==
    organize_items(st, iterdir(st, current_dir, opt.hidden, opt.order), 1, opt)

(* The log file: absent, or the operations of the run that wrote it. *)
NoLog == [present |-> FALSE, operations |-> << >>]

(* save_log without the test of an empty operation list *)
save_log_always(log, operations, dry_run) ==
    IF dry_run THEN log ELSE [present |-> TRUE, operations |-> operations]

save_log(log, operations, dry_run) ==
    IF dry_run \/ operations = << >>
    THEN log
    ELSE [present |-> TRUE, operations |-> operations]

(* FileOrganizer(directory, recursive, dry_run).run() on the filesystem    *)
(* (d, f) with log file log and ignore file ignore_file.  raised says that *)
(* an exception left run(). *)
(* run() after organize_directory has returned st, or raised *)
run_end(st, log, dry_run) ==
    [dirs |-> st.dirs, files |-> st.files,
     log |-> IF st.raised \/ dry_run THEN log
             ELSE save_log(log, st.operations, dry_run),
     operations |-> st.operations, reports |-> st.reports,
     existed |-> st.existed, count |-> st.count, raised |-> st.raised]

run(d, f, log, ignore_file, recursive, dry_run, order, fail) ==
    run_end(
        organize_directory(
            [dirs |-> d, files |-> f, operations |-> << >>, reports |-> << >>,
             existed |-> << >>, count |-> 0, raised |-> FALSE],
            ROOT,
            [recursive |-> recursive, dry_run |-> dry_run, order |-> order,
             fail |-> fail,
             patterns |-> load_ignore_patterns(ignore_file),
             hidden |-> (IF log.present THEN {<<LOG_NAME>>} ELSE {})
                           \cup (IF ignore_file.present THEN {<<IGNORE_NAME>>} ELSE {})]),
        log, dry_run)

(***************************************************************************)
(* undo_organization.                                                      *)
(***************************************************************************)
(* old_path.parent.mkdir(parents=True, exist_ok=True) *)
ancestors(p) == {SubSeq(p, 1, k) : k \in 1..(Len(p) - 1)}

mkdir_parents_raises(st, p) == \E a \in ancestors(p) : a \in DOMAIN st.files

mkdir_parents(st, p) == [st EXCEPT !.dirs = @ \cup ancestors(p)]

(* shutil.move(new_path, old_path) and the count, in the try block *)
move_back(s1, op, fail) ==
    IF move_raises(s1, op.new_path, op.old_path, fail)
    THEN [s1 EXCEPT !.outcomes = Append(@, "failed")]
    ELSE [shutil_move(s1, op.new_path, op.old_path) EXCEPT
             !.outcomes = Append(@, "restored"),
             !.success_count = @ + 1]

(* One record of the log: skipped, restored or failed. *)
undo_record(st, op, fail) ==
    IF ~exists(st, op.new_path)
    THEN [st EXCEPT !.outcomes = Append(@, "skipped")]
    ELSE IF mkdir_parents_raises(st, op.old_path)
    THEN [st EXCEPT !.outcomes = Append(@, "failed")]
    ELSE move_back(mkdir_parents(st, op.old_path), op, fail)

(* for op in reversed(operations), from record i down *)
RECURSIVE undo_records(_, _, _, _)
undo_records(st, operations, i, fail) ==
    IF i = 0 THEN st
    ELSE undo_records(undo_record(st, operations[i], fail), operations, i - 1, fail)

(* Delete empty category folders: every empty directory of the root *)
remove_empty_folders(st) ==
    [st EXCEPT !.dirs = {x \in @ : ~(Len(x) = 1 /\ children(st, x) = {})}]

(* log_file.unlink() *)
unlink_log(log) == NoLog

(* undo_end keeping the log when a record was skipped or failed *)
undo_end_keeps_log(st, log) ==
    [dirs |-> st.dirs, files |-> st.files,
     log |-> IF \A i \in 1..Len(st.outcomes) : st.outcomes[i] = "restored"
             THEN unlink_log(log) ELSE log,
     outcomes |-> st.outcomes, success_count |-> st.success_count, found |-> TRUE]

(* undo_organization once every record is processed *)
undo_end(st, log) ==
    [dirs |-> st.dirs, files |-> st.files, log |-> unlink_log(log),
     outcomes |-> st.outcomes, success_count |-> st.success_count, found |-> TRUE]

undo_organization(d, f, log, fail) ==
    IF ~log.present \/ log.operations = << >>
    THEN [dirs |-> d, files |-> f, log |-> log, outcomes |-> << >>,
          success_count |-> 0, found |-> FALSE]
    ELSE undo_end(
             remove_empty_folders(
                 undo_records([dirs |-> d, files |-> f, outcomes |-> << >>,
                               success_count |-> 0],
                              log.operations, Len(log.operations), fail)),
             log)

(***************************************************************************)
(* The state: the filesystem below the root, the log file, the ignore      *)
(* file, and a record of the last two operations (last, prev) and of the   *)
(* live runs so far (hist), which the properties read.                     *)
(***************************************************************************)
VARIABLES dirs, files, log, ignore_file, steps, last, prev, hist

vars == <<dirs, files, log, ignore_file, steps, last, prev, hist>>

(* A tree holds every file under its own path as its contents. *)
Tree(d, paths, ignore) ==
    [dirs |-> d, files |-> [p \in paths |-> p], ignore_file |-> ignore]

SampleIgnore ==
    [present |-> TRUE,
     lines |-> <<"# Ignore files containing certain text", "*backup*">>]

InitialTrees ==
    { Tree({}, {<<"photo.jpg">>, <<"notes.txt">>, <<"archive.zip">>, <<"report_backup.txt">>},
           SampleIgnore),
      Tree({}, {<<"Images">>, <<"photo.jpg">>}, NoFile),
      Tree({<<"Others">>}, {<<"y.foo">>, <<"Others", "y.foo">>}, NoFile),
      Tree({<<"sub1">>, <<"sub2">>, <<"mine">>},
           {<<"sub1", "a.txt">>, <<"sub2", "a.txt">>}, NoFile),
      Tree({<<"Documents">>},
           {<<"a.txt">>, <<"a_1.txt">>, <<"Documents", "a.txt">>}, NoFile),
      Tree({<<"Documents">>},
           {<<"a.txt">>, <<"Documents", "a.txt">>, <<"Documents", "a_1.txt">>}, NoFile),
      Tree({}, {<<"Others">>, <<"a.txt">>}, NoFile) }

(* The names of the files a user adds to the root between operations. *)
AddNames == {"a.txt", "y.foo"}

(* The sets of file names whose move the filesystem refuses in one         *)
(* operation. *)
FailSets == {{}, {"a.txt"}}

Summary(kind, recursive, dry_run, order, fail, r) ==
    [kind |-> kind, recursive |-> recursive, dry_run |-> dry_run, order |-> order,
     fail |-> fail, dirs0 |-> dirs, files0 |-> files, log0 |-> log,
     reports |-> r.reports, operations |-> r.operations, existed |-> r.existed,
     count |-> r.count, raised |-> r.raised, outcomes |-> r.outcomes, found |-> r.found]

Nothing ==
    [reports |-> << >>, operations |-> << >>, existed |-> << >>, count |-> 0,
     raised |-> FALSE, outcomes |-> << >>, found |-> FALSE]

Init ==
    /\ \E t \in InitialTrees :
          /\ dirs = t.dirs
          /\ files = t.files
          /\ ignore_file = t.ignore_file
    /\ log = NoLog
    /\ steps = 0
    /\ last = Summary("none", FALSE, FALSE, "ascending", {}, Nothing)
    /\ prev = last
    /\ hist = [only_runs |-> TRUE, live_ran |-> FALSE, live_operations |-> << >>,
               saved_operations |-> << >>]

(* python organizer.py DIR [--recursive] [--dry-run]: a dry run moves      *)
(* nothing, so no refused move is drawn for it. *)
Ran(r, recursive, dry_run, order, fail) ==
    /\ dirs' = r.dirs
    /\ files' = r.files
    /\ log' = r.log
    /\ last' = Summary("organize", recursive, dry_run, order, fail,
                       r @@ [outcomes |-> << >>, found |-> FALSE])
    /\ prev' = last
    /\ hist' = [hist EXCEPT
                  !.live_ran = @ \/ ~dry_run,
                  !.live_operations = IF dry_run THEN @ ELSE r.operations,
                  !.saved_operations =
                      IF ~dry_run /\ ~r.raised /\ r.operations # << >>
                      THEN r.operations ELSE @]

Organize(recursive, dry_run, order, fail) ==
    /\ steps < MaxSteps
    /\ (dry_run => fail = {})
    /\ Ran(run(dirs, files, log, ignore_file, recursive, dry_run, order, fail),
           recursive, dry_run, order, fail)
    /\ steps' = steps + 1
    /\ UNCHANGED ignore_file

(* python organizer.py DIR --undo *)
Undone(u, fail) ==
    /\ dirs' = u.dirs
    /\ files' = u.files
    /\ log' = u.log
    /\ last' = Summary("undo", FALSE, FALSE, "ascending", fail,
                       [Nothing EXCEPT !.count = u.success_count,
                                       !.outcomes = u.outcomes,
                                       !.found = u.found])
    /\ prev' = last
    /\ hist' = [hist EXCEPT !.only_runs = FALSE]

Undo(fail) ==
    /\ steps < MaxSteps
    /\ Undone(undo_organization(dirs, files, log, fail), fail)
    /\ steps' = steps + 1
    /\ UNCHANGED ignore_file

(* The user puts a new file into the root. *)
AddFile(n) ==
    /\ steps < MaxSteps
    /\ <<n>> \notin dirs
    /\ <<n>> \notin DOMAIN files
    /\ files' = [p \in DOMAIN files \cup {<<n>>} |->
                    IF p = <<n>> THEN <<"added", n, ToString(steps)>> ELSE files[p]]
    /\ last' = Summary("add", FALSE, FALSE, "ascending", {}, Nothing)
    /\ prev' = last
    /\ steps' = steps + 1
    /\ UNCHANGED <<dirs, log, ignore_file, hist>>

(* The user deletes a file. *)
RemoveFile(p) ==
    /\ steps < MaxSteps
    /\ p \in DOMAIN files
    /\ files' = [q \in DOMAIN files \ {p} |-> files[q]]
    /\ last' = Summary("remove", FALSE, FALSE, "ascending", {}, Nothing)
    /\ prev' = last
    /\ hist' = [hist EXCEPT !.only_runs = FALSE]
    /\ steps' = steps + 1
    /\ UNCHANGED <<dirs, log, ignore_file>>

Next ==
    \/ \E recursive \in BOOLEAN, dry_run \in BOOLEAN, order \in Orders, fail \in FailSets :
          Organize(recursive, dry_run, order, fail)
    \/ \E fail \in FailSets : Undo(fail)
    \/ \E n \in AddNames : AddFile(n)
    \/ \E p \in DOMAIN files : RemoveFile(p)

Spec == Init /\ [][Next]_vars

(***************************************************************************)
(* The properties.                                                         *)
(***************************************************************************)
LiveRun(s) == s.kind = "organize" /\ ~s.dry_run

DryRun(s) == s.kind = "organize" /\ s.dry_run

(* The root-level folders organize moves files into. *)
DestinationFolders == category_keys \cup {"Others"}

(* A live run in which no move was refused and no exception left run(),    *)
(* directly followed by an undo in which no move was refused. *)
OrganizeThenUndo ==
    /\ last.kind = "undo" /\ last.fail = {}
    /\ LiveRun(prev) /\ prev.fail = {} /\ ~prev.raised

(* C1: after a live organize run directly followed by undo, every file the *)
(* run moved is back at its original path with its contents, no category   *)
(* folder is empty, and the root holds no log file. *)
C1_RoundTrip ==
    OrganizeThenUndo =>
        /\ \A p \in DOMAIN prev.files0 :
              (\E i \in 1..Len(prev.operations) : prev.operations[i].old_path = p)
                  => p \in DOMAIN files /\ files[p] = prev.files0[p]
        /\ \A d \in dirs :
              Len(d) = 1 /\ name(d) \in DestinationFolders
                  => children([dirs |-> dirs, files |-> files], d) # {}
        /\ ~log.present

ScenarioFiles ==
    [p \in {<<"photo.jpg">>, <<"notes.txt">>, <<"archive.zip">>, <<"report_backup.txt">>}
        |-> p]

(* C2: with the pattern *backup* loaded, a non-recursive live run over     *)
(* photo.jpg, notes.txt, archive.zip and report_backup.txt moves the first *)
(* three into Images, Documents and Archives, leaves report_backup.txt in  *)
(* the root and counts 3. *)
C2_BackupIgnored ==
    ( /\ LiveRun(last) /\ ~last.recursive /\ last.fail = {}
      /\ last.files0 = ScenarioFiles /\ last.dirs0 = {}
      /\ \E i \in 1..Len(load_ignore_patterns(ignore_file)) :
            load_ignore_patterns(ignore_file)[i] = "*backup*" )
    =>  /\ DOMAIN files = {<<"Images", "photo.jpg">>, <<"Documents", "notes.txt">>,
                           <<"Archives", "archive.zip">>, <<"report_backup.txt">>}
        /\ files[<<"report_backup.txt">>] = <<"report_backup.txt">>
        /\ last.count = 3

(* C3: no exception leaves run(): a live run whose handling of one file    *)
(* fails still ends normally, and the log holds the moves that succeeded.  *)
C3_NoAbort ==
    LiveRun(last) =>
        /\ ~last.raised
        /\ last.operations # << >> =>
              log = [present |-> TRUE, operations |-> last.operations]

(* C4: a dry run changes neither the directories, the files nor the log    *)
(* and records no operation; two dry runs in a row with the same options   *)
(* report the same pairs and the same count. *)
C4_DryRunFrame ==
    DryRun(last) =>
        /\ dirs = last.dirs0
        /\ files = last.files0
        /\ log = last.log0
        /\ last.operations = << >>
        /\ ~last.raised
        /\ ( DryRun(prev) /\ prev.recursive = last.recursive /\ prev.order = last.order )
              => last.reports = prev.reports /\ last.count = prev.count

(* Two dry runs in a row that report two moves into one folder. *)
C4_Witness ==
    /\ DryRun(last) /\ DryRun(prev)
    /\ prev.recursive = last.recursive /\ prev.order = last.order
    /\ Len(last.reports) >= 2
    /\ \E i \in 1..Len(last.reports) : \E c \in category_keys :
          <<c>> \notin dirs /\ last.reports[i].new_path[1] = c

C7_CollisionFree ==
    LiveRun(last) =>
        /\ \A i \in 1..Len(last.existed) : ~last.existed[i]
        /\ \A i, j \in 1..Len(last.operations) :
              i # j => last.operations[i].new_path # last.operations[j].new_path

(* C8: the pairs a dry run reports are the pairs that a live run with the  *)
(* same options, started from the same tree, performs. *)
C8_DryRunPredicts ==
    ( /\ LiveRun(last) /\ last.fail = {} /\ ~last.raised
      /\ DryRun(prev)
      /\ prev.recursive = last.recursive /\ prev.order = last.order )
    => last.reports = prev.reports

(* C9: a live run moves no file that sat in a destination folder of the    *)
(* root before it, and a second live run with the same options directly    *)
(* after a first one moves nothing and counts 0. *)
C9_OutputNotReorganized ==
    /\ LiveRun(last) =>
          \A i \in 1..Len(last.operations) :
              ~ ( /\ Len(last.operations[i].old_path) = 2
                  /\ last.operations[i].old_path[1] \in DestinationFolders
                  /\ last.operations[i].old_path \in DOMAIN last.files0 )
    /\ ( /\ LiveRun(last) /\ last.fail = {} /\ ~last.raised
         /\ LiveRun(prev) /\ prev.fail = {} /\ ~prev.raised
         /\ prev.recursive = last.recursive )
       => last.count = 0 /\ last.operations = << >>

(* C10: after a live organize run directly followed by undo, every         *)
(* directory that existed before the run still exists. *)
C10_UndoKeepsFolders ==
    OrganizeThenUndo => prev.dirs0 \subseteq dirs

====
